---- MODULE Spec2Model ----
(***************************************************************************)
(* The maintenance planning page (PlanningNew) of TAMS and the planning    *)
(* engine it calls.  The page keeps anomalies, maintenance windows and     *)
(* action plans; its handlers start auto-schedule passes, apply their      *)
(* results, schedule by hand and delete windows.  The planning engine      *)
(* (hooks/usePlanningEngineReal) is modelled from its written contract.    *)
(***************************************************************************)
EXTENDS Integers, Sequences, FiniteSets, TLC

\* ------------------------------------------------------------ bounds
NumAnomalies == 2
NumWindows == 2
MaxInFlight == 2
MaxEdits == 1
MaxRuns == 2
MaxScore == 3

AnomalyIds == 1..NumAnomalies
WindowIds == 1..NumWindows
\* an id no window of the page's list carries: a window the backend created
CreatedWindowId == NumWindows + 1
\* the id temp_<time> the page gives the window it adds before the backend answers
TempWindowId == NumWindows + 2

VARIABLES
    anomalies,           \* id -> [status, criticalityLevel, equipmentId, maintenanceWindowId]
    maintenanceWindows,  \* list of [id, durationDays, startDate, status]
    actionPlans,         \* anomaly id -> totalDurationDays of its plan, NoPlan or 0: none
    now,                 \* the clock read by new Date()
    availableWindows,    \* the memoized list of usable windows
    timerArmed,          \* a 2-second auto-scheduling timer is pending
    inFlight,            \* auto-schedule passes awaiting the engine
    lastPass,            \* what the pass that finished in the last step did
    optLog,              \* one entry per optimizer run
    edits,               \* how many times the user has scheduled by hand or deleted a window
    criticality,         \* an anomaly's score sheet and the level each view computes from it
    planning,            \* the planningAlgorithm memo: ranking, window analysis, recommendations
    creation,            \* the window creation started from the modal, and how it ended
    planEditor,          \* the action-plan editor: the plan, its pending changes, the store
    chat,                \* the chat: its messages, isTyping, the request in flight
    windowDetail         \* what the window detail modal shows for a window

vars == <<anomalies, maintenanceWindows, actionPlans, now, availableWindows,
          timerArmed, inFlight, lastPass, optLog, edits, criticality, planning,
          creation, planEditor, chat, windowDetail>>

\* ------------------------------------------------------------ helpers
Min(S) == CHOOSE x \in S : \A y \in S : x <= y

Max2(a, b) == IF a >= b THEN a ELSE b

Abs(x) == IF x >= 0 THEN x ELSE 0 - x

RECURSIVE SumOver(_, _)
SumOver(S, f) ==
    IF S = {} THEN 0
    ELSE LET x == CHOOSE y \in S : TRUE IN f[x] + SumOver(S \ {x}, f)

Range(s) == {s[i] : i \in 1..Len(s)}

IdList == [i \in AnomalyIds |-> i]

\* what actionPlans holds for an anomaly that has no plan; durations are never negative
NoPlan == 0 - 1

\* nothing computed yet
NoCriticality ==
    [sheet |-> <<>>, computed |-> FALSE,
     levels |-> [AnomalyTable |-> "", AnomalyDetail |-> "", Anomalies |-> "", Dashboard |-> ""]]

NoPlanning ==
    [computed |-> FALSE, sortedAnomalies |-> <<>>, windowAnalysis |-> <<>>,
     recommendations |-> <<>>]

\* no window is being created from the modal
NoCreation == [phase |-> "idle", rethrown |-> FALSE, toasts |-> {}]

\* the action-plan editor is closed
NoEditor == [open |-> FALSE]

\* the chat has not been opened
NoChat == [open |-> FALSE]

\* the window detail modal is closed
NoDetail == [open |-> FALSE, window |-> 0, scale |-> 1, utilization |-> 0]

\* ------------------------------------------------------------ scoring model (engine)
\* criticalityWeight of the scoring contract
scoreWeight(level) ==
    CASE level = "critical" -> 10
      [] level = "high" -> 7
      [] level \in {"medium", "normal"} -> 4
      [] OTHER -> 1

\* urgencyScore, times 10: the equipment factor 1.2 / 1.0 becomes 12 / 10
scoreUrgency10(an) ==
    scoreWeight(an.criticalityLevel) * (IF an.equipmentId # 0 THEN 12 ELSE 10)

\* processingTime: the plan's totalDurationDays, 1 when there is no plan
scoreProcessingTime(plans, a) == IF plans[a] >= 1 THEN plans[a] ELSE 1

\* the score of every candidate: urgency (times 10) and processing time
scoreAll(anoms, plans) ==
    [a \in AnomalyIds |->
        [urgency10 |-> scoreUrgency10(anoms[a]),
         processingTime |-> scoreProcessingTime(plans, a)]]

\* efficiency(x) > efficiency(y), efficiency = urgency / processingTime
effGreater(x, y) == x.urgency10 * y.processingTime > y.urgency10 * x.processingTime

effEqual(x, y) == x.urgency10 * y.processingTime = y.urgency10 * x.processingTime

\* ------------------------------------------------------------ auto-scheduler (engine)
\* a goes before the first element of strictly smaller efficiency
sortInsertUnstable(sorted, a, sc) ==
    LET before == {k \in 1..Len(sorted) : effGreater(sc[sorted[k]], sc[a])}
        n == Cardinality(before)
    IN  SubSeq(sorted, 1, n) \o <<a>> \o SubSeq(sorted, n + 1, Len(sorted))

sortInsert(sorted, a, sc) ==
    LET before == {k \in 1..Len(sorted) : ~effGreater(sc[a], sc[sorted[k]])}
        n == Cardinality(before)
    IN  SubSeq(sorted, 1, n) \o <<a>> \o SubSeq(sorted, n + 1, Len(sorted))

RECURSIVE sortByEfficiency(_, _)
sortByEfficiency(s, sc) ==
    IF s = <<>> THEN <<>>
    ELSE sortInsert(sortByEfficiency(SubSeq(s, 1, Len(s) - 1), sc), s[Len(s)], sc)

\* position of the first window with room for p days, 0 when none has
firstFitNoRoomCheck(wins, rem, p) ==
    LET fits == {k \in 1..Len(wins) : rem[wins[k].id] > 0}
    IN  IF fits = {} THEN 0 ELSE Min(fits)

firstFit(wins, rem, p) ==
    LET fits == {k \in 1..Len(wins) : rem[wins[k].id] >= p}
    IN  IF fits = {} THEN 0 ELSE Min(fits)

consumeNothing(rem, w, p) == rem

\* the in-memory capacity tracking: a placement uses up p days of window w
consume(rem, w, p) == [rem EXCEPT ![w] = @ - p]

RECURSIVE place(_, _, _, _, _)
place(order, wins, rem, sc, acc) ==
    IF order = <<>> THEN acc
    ELSE LET a == Head(order)
             p == sc[a].processingTime
             k == firstFit(wins, rem, p)
         IN  IF k = 0
             THEN place(Tail(order), wins, rem, sc,
                        [acc EXCEPT !.unassigned = Append(@, a)])
             ELSE place(Tail(order), wins,
                        consume(rem, wins[k].id, p), sc,
                        [acc EXCEPT !.assignments =
                            Append(@, [anomalyId |-> a, windowId |-> wins[k].id])])

\* autoSchedule(unscheduledTreatedAnomalies, availableWindows, actionPlans);
\* load0 is the workload each window already carries
autoSchedule(anoms, wins, sc, load0) ==
    place(sortByEfficiency(anoms, sc), wins,
          [w \in {wins[k].id : k \in 1..Len(wins)} |->
              (CHOOSE x \in Range(wins) : x.id = w).durationDays - load0[w]],
          sc, [assignments |-> <<>>, unassigned |-> <<>>])

\* ------------------------------------------------------------ the page's derived data
treatedAnomaliesOf(anoms) ==
    SelectSeq(IdList, LAMBDA a : anoms[a].status = "treated")

unscheduledTreatedAnomaliesOf(anoms) ==
    SelectSeq(treatedAnomaliesOf(anoms), LAMBDA a : anoms[a].maintenanceWindowId = 0)

treatedAnomalies == treatedAnomaliesOf(anomalies)

unscheduledTreatedAnomalies == unscheduledTreatedAnomaliesOf(anomalies)

\* the filter of the availableWindows memo, evaluated at time t
availableWindowsAt(wins, t) ==
    SelectSeq(wins, LAMBDA w : w.status = "planned" /\ w.startDate > t)

\* the workload a window carries: the plans of the anomalies assigned to it
currentAssignedWorkload(anoms, plans, w) ==
    SumOver({a \in AnomalyIds : anoms[a].maintenanceWindowId = w},
            [a \in AnomalyIds |-> scoreProcessingTime(plans, a)])

autoScheduleEnabled == TRUE

\* the auto-scheduling effect: it re-runs when its dependencies change, dropping
\* the pending timer and arming a new one while something is unscheduled
effectArms(anoms) == autoScheduleEnabled /\ unscheduledTreatedAnomaliesOf(anoms) # <<>>

updateAnomaly(anoms, a, w) == [anoms EXCEPT ![a].maintenanceWindowId = w]

NoPass ==
    [outcome |-> "none", toasts |-> {}, changed |-> {}, applied |-> {},
     snapshot |-> {}, unassignedCount |-> 0,
     response |-> [assignments |-> <<>>, unassigned |-> <<>>], windowsBefore |-> <<>>]

\* ------------------------------------------------------------ an auto-schedule pass
\* what handleAutoSchedule hands to the engine, and the engine's result for it
AutoSchedulePass ==
    LET sc == scoreAll(anomalies, actionPlans)
        load0 == [w \in WindowIds |-> currentAssignedWorkload(anomalies, actionPlans, w)]
    IN  [anoms |-> unscheduledTreatedAnomalies,
         records |-> [a \in Range(unscheduledTreatedAnomalies) |-> anomalies[a]],
         wins |-> availableWindows,
         sc |-> sc,
         load0 |-> load0,
         calledAt |-> now,
         res |-> autoSchedule(unscheduledTreatedAnomalies, availableWindows, sc, load0)]

\* the engine's result, or the same result with the anomalies it could not place
\* put into a window the backend created: the answers lines 165-205 are written for
EngineResponses(p) ==
    {p.res,
     [assignments |-> p.res.assignments \o
          [k \in 1..Len(p.res.unassigned) |->
              [anomalyId |-> p.res.unassigned[k], windowId |-> CreatedWindowId]],
      unassigned |-> <<>>]}

RemoveAt(s, i) == SubSeq(s, 1, i - 1) \o SubSeq(s, i + 1, Len(s))

validAssignmentsUnfiltered(assignments, existingWindowIds) == assignments

validAssignments(assignments, existingWindowIds) ==
    SelectSeq(assignments, LAMBDA x : x.windowId \in existingWindowIds)

RECURSIVE applyAssignments(_, _)
applyAssignments(anoms, assignments) ==
    IF assignments = <<>> THEN anoms
    ELSE applyAssignments(
             updateAnomaly(anoms, Head(assignments).anomalyId, Head(assignments).windowId),
             Tail(assignments))

\* the unassigned count of lines 192-205
unassignedCountOf(resp, wins) ==
    Len(resp.unassigned)
    + Cardinality({resp.assignments[k].anomalyId : k \in
          {j \in 1..Len(resp.assignments) :
              resp.assignments[j].windowId \notin {w.id : w \in Range(wins)}}})

\* the toasts of a pass whose engine call returned
thenToasts(nValid, unassignedCount) ==
    (IF nValid > 0 THEN {"success"} ELSE {})
    \cup (IF unassignedCount > 0 THEN {"info"} ELSE {})

catchToastsSwallowed == {}

\* the toasts of the catch block
catchToasts == {"error"}

changedBy(before, after) ==
    {<<a, after[a].maintenanceWindowId>> : a \in
        {b \in AnomalyIds : after[b].maintenanceWindowId # before[b].maintenanceWindowId}}

\* handleAutoSchedule up to its await: nothing to do, or a pass starts
HandleAutoSchedule ==
    IF unscheduledTreatedAnomalies = <<>>
    THEN inFlight' = inFlight
    ELSE inFlight' = Append(inFlight, AutoSchedulePass)

\* the 2-second timer of the auto-scheduling effect fires
TimerFire ==
    /\ timerArmed
    /\ Len(inFlight) < MaxInFlight
    /\ HandleAutoSchedule
    /\ timerArmed' = FALSE
    /\ UNCHANGED <<creation, planEditor, chat, windowDetail, criticality, planning, anomalies, maintenanceWindows, actionPlans, now, availableWindows,
                   optLog, edits>>
    /\ lastPass' = NoPass

\* the AutoScheduler component calls onScheduleComplete
AutoSchedulerComplete ==
    /\ autoScheduleEnabled
    /\ Len(inFlight) < MaxInFlight
    /\ HandleAutoSchedule
    /\ UNCHANGED <<creation, planEditor, chat, windowDetail, criticality, planning, anomalies, maintenanceWindows, actionPlans, now, availableWindows,
                   timerArmed, optLog, edits>>
    /\ lastPass' = NoPass

\* the engine call of pass i returns resp: handleAutoSchedule after its await
HandleAutoScheduleThen(i, resp) ==
    LET p == inFlight[i]
        existingWindowIds == {w.id : w \in Range(p.wins)}
        valid == validAssignments(resp.assignments, existingWindowIds)
        unassignedCount == unassignedCountOf(resp, p.wins)
    IN  /\ anomalies' = applyAssignments(anomalies, valid)
        /\ timerArmed' = IF valid # <<>> THEN effectArms(anomalies') ELSE timerArmed
        /\ lastPass' = [outcome |-> "ok",
                        toasts |-> thenToasts(Len(valid), unassignedCount),
                        changed |-> changedBy(anomalies, anomalies'),
                        applied |-> {<<valid[k].anomalyId, valid[k].windowId>> :
                                        k \in 1..Len(valid)},
                        snapshot |-> existingWindowIds,
                        unassignedCount |-> unassignedCount,
                        response |-> resp,
                        windowsBefore |-> maintenanceWindows]
        /\ inFlight' = RemoveAt(inFlight, i)
        /\ UNCHANGED <<creation, planEditor, chat, windowDetail, criticality, planning, maintenanceWindows, actionPlans, now, availableWindows, optLog, edits>>

EngineResolve ==
    \E i \in 1..Len(inFlight) : \E resp \in EngineResponses(inFlight[i]) :
        HandleAutoScheduleThen(i, resp)

\* the engine call of pass i throws: the catch block of handleAutoSchedule
HandleAutoScheduleCatch(i) ==
    LET p == inFlight[i]
    IN  /\ anomalies' = anomalies
        /\ lastPass' = [outcome |-> "error",
                        toasts |-> catchToasts,
                        changed |-> changedBy(anomalies, anomalies'),
                        applied |-> {},
                        snapshot |-> {w.id : w \in Range(p.wins)},
                        unassignedCount |-> 0,
                        response |-> [assignments |-> <<>>, unassigned |-> <<>>],
                        windowsBefore |-> maintenanceWindows]
        /\ inFlight' = RemoveAt(inFlight, i)
        /\ UNCHANGED <<creation, planEditor, chat, windowDetail, criticality, planning, maintenanceWindows, actionPlans, now,
                       availableWindows, timerArmed, optLog, edits>>

EngineReject == \E i \in 1..Len(inFlight) : HandleAutoScheduleCatch(i)

\* ------------------------------------------------------------ the other handlers
HandleManualSchedule ==
    \E a \in Range(treatedAnomalies) : \E w \in {x.id : x \in Range(maintenanceWindows)} :
        /\ edits < MaxEdits
        /\ edits' = edits + 1
        /\ anomalies' = updateAnomaly(anomalies, a, w)
        /\ timerArmed' = effectArms(anomalies')
        /\ UNCHANGED <<creation, planEditor, chat, windowDetail, criticality, planning, maintenanceWindows, actionPlans, now, availableWindows,
                       inFlight, optLog>>
        /\ lastPass' = NoPass

unassignAllFromNot(anoms, w) == anoms

\* handleDeleteWindow: updateAnomaly(id, {maintenanceWindowId: undefined}) for every
\* anomaly assigned to window w
unassignAllFrom(anoms, w) ==
    [a \in AnomalyIds |->
        IF anoms[a].maintenanceWindowId = w
        THEN [anoms[a] EXCEPT !.maintenanceWindowId = 0]
        ELSE anoms[a]]

deleteMaintenanceWindow(wins, w) == SelectSeq(wins, LAMBDA x : x.id # w)

HandleDeleteWindow ==
    \E w \in {x.id : x \in Range(maintenanceWindows)} :
        /\ edits < MaxEdits
        /\ edits' = edits + 1
        /\ anomalies' = unassignAllFrom(anomalies, w)
        /\ maintenanceWindows' = deleteMaintenanceWindow(maintenanceWindows, w)
        /\ availableWindows' = availableWindowsAt(maintenanceWindows', now)
        /\ timerArmed' = effectArms(anomalies')
        /\ UNCHANGED <<creation, planEditor, chat, windowDetail, criticality, planning, actionPlans, now, inFlight, optLog>>
        /\ lastPass' = NoPass

\* time passes; once every window has started, more time changes nothing here
Tick ==
    /\ \E w \in Range(maintenanceWindows) : w.startDate > now
    /\ now' = now + 1
    /\ UNCHANGED <<creation, planEditor, chat, windowDetail, criticality, planning, anomalies, maintenanceWindows, actionPlans, availableWindows,
                   timerArmed, inFlight, optLog, edits>>
    /\ lastPass' = NoPass

\* ------------------------------------------------------------ the page
WindowList(durs, starts, stats) ==
    [w \in WindowIds |->
        [id |-> w, durationDays |-> durs[w], startDate |-> starts[w], status |-> stats[w]]]

\* the last window of the list is planned, completed or already started
LastWindowChoices ==
    {[status |-> "planned", startDate |-> 1],
     [status |-> "completed", startDate |-> 1],
     [status |-> "planned", startDate |-> 0]}

Init ==
    /\ \E st \in {"treated", "new"} :
           anomalies = [a \in AnomalyIds |->
               [status |-> IF a = NumAnomalies THEN st ELSE "treated",
                criticalityLevel |-> "normal", equipmentId |-> 0,
                maintenanceWindowId |-> 0]]
    /\ actionPlans = [a \in AnomalyIds |-> 3]
    /\ \E last \in LastWindowChoices :
           maintenanceWindows =
               WindowList([w \in WindowIds |-> 5],
                          [w \in WindowIds |-> IF w = NumWindows THEN last.startDate ELSE 1],
                          [w \in WindowIds |-> IF w = NumWindows THEN last.status ELSE "planned"])
    /\ now = 0
    /\ availableWindows = availableWindowsAt(maintenanceWindows, now)
    /\ timerArmed = effectArms(anomalies)
    /\ inFlight = <<>>
    /\ lastPass = NoPass
    /\ optLog = <<>>
    /\ edits = 0
    /\ criticality = NoCriticality
    /\ planning = NoPlanning
    /\ creation = NoCreation
    /\ planEditor = NoEditor
    /\ chat = NoChat
    /\ windowDetail = NoDetail

Next ==
    \/ TimerFire
    \/ AutoSchedulerComplete
    \/ EngineResolve
    \/ EngineReject
    \/ HandleManualSchedule
    \/ HandleDeleteWindow
    \/ Tick

Spec == Init /\ [][Next]_vars

\* ------------------------------------------------------------ the engine called on its own
\* anomalies of the engine's inputs: not yet treated, treated and unscheduled,
\* or treated and already in window 1
EngineAnomalyChoices ==
    [status : {"treated"}, criticalityLevel : {"critical", "normal"},
     equipmentId : {0, 1}, maintenanceWindowId : {0, 1}]
    \cup [status : {"new"}, criticalityLevel : {"critical", "normal"},
          equipmentId : {0, 1}, maintenanceWindowId : {0}]

InitEngine ==
    /\ anomalies \in [AnomalyIds -> EngineAnomalyChoices]
    /\ actionPlans \in [AnomalyIds -> {0, 3}]
    /\ \E durs \in [WindowIds -> {2, 5}] :
           maintenanceWindows =
               WindowList(durs, [w \in WindowIds |-> 1], [w \in WindowIds |-> "planned"])
    /\ now = 0
    /\ availableWindows = availableWindowsAt(maintenanceWindows, now)
    /\ timerArmed = FALSE
    /\ inFlight = <<>>
    /\ lastPass = NoPass
    /\ optLog = <<>>
    /\ edits = 0
    /\ criticality = NoCriticality
    /\ planning = NoPlanning
    /\ creation = NoCreation
    /\ planEditor = NoEditor
    /\ chat = NoChat
    /\ windowDetail = NoDetail

\* autoScheduleTreatedAnomalies called with the page's current lists
AutoScheduleCall ==
    /\ inFlight = <<>>
    /\ inFlight' = <<AutoSchedulePass>>
    /\ UNCHANGED <<creation, planEditor, chat, windowDetail, criticality, planning, anomalies, maintenanceWindows, actionPlans, now, availableWindows,
                   timerArmed, lastPass, optLog, edits>>

NextEngine == AutoScheduleCall

SpecEngine == InitEngine /\ [][NextEngine]_vars

\* ------------------------------------------------------------ what a pass's result says
Pos(s, x) == CHOOSE i \in 1..Len(s) : s[i] = x

\* a is considered before b: higher efficiency, or equal efficiency and earlier in the input
Before(p, a, b) ==
    \/ effGreater(p.sc[a], p.sc[b])
    \/ effEqual(p.sc[a], p.sc[b]) /\ Pos(p.anoms, a) < Pos(p.anoms, b)

AssignedTo(p, w) ==
    {p.res.assignments[k].anomalyId :
        k \in {j \in 1..Len(p.res.assignments) : p.res.assignments[j].windowId = w}}

DaysOf(p, S) == SumOver(S, [a \in AnomalyIds |-> p.sc[a].processingTime])

Capacity0(p, w) == w.durationDays - p.load0[w.id]

\* the room window w has left when anomaly x is considered
RemAt(p, w, x) ==
    Capacity0(p, w) - DaysOf(p, {a \in AssignedTo(p, w.id) : Before(p, a, x)})

Fits(p, w, x) == RemAt(p, w, x) >= p.sc[x].processingTime

C3_OrderAndFirstFit ==
    \A p \in Range(inFlight) :
        /\ \A i, j \in 1..Len(p.res.assignments) :
               i < j => Before(p, p.res.assignments[i].anomalyId,
                               p.res.assignments[j].anomalyId)
        /\ \A i, j \in 1..Len(p.res.unassigned) :
               i < j => Before(p, p.res.unassigned[i], p.res.unassigned[j])
        /\ \A i \in 1..Len(p.res.assignments) :
               LET x == p.res.assignments[i].anomalyId
                   k == CHOOSE n \in 1..Len(p.wins) :
                            p.wins[n].id = p.res.assignments[i].windowId
               IN  /\ Fits(p, p.wins[k], x)
                   /\ \A n \in 1..(k - 1) : ~Fits(p, p.wins[n], x)

\* two anomalies of equal efficiency and different durations are both placed, the
\* later one in the second window because the first had no room left
C3_Witness ==
    \E p \in Range(inFlight) :
        /\ Len(p.res.assignments) = 2
        /\ effEqual(p.sc[p.res.assignments[1].anomalyId], p.sc[p.res.assignments[2].anomalyId])
        /\ p.sc[p.res.assignments[1].anomalyId].processingTime
               # p.sc[p.res.assignments[2].anomalyId].processingTime
        /\ p.res.assignments[1].windowId = p.wins[1].id
        /\ p.res.assignments[2].windowId = p.wins[2].id

\* ------------------------------------------------------------ what a finished pass did
IgnoredAnomalies(lp) ==
    {lp.response.assignments[k].anomalyId :
        k \in {j \in 1..Len(lp.response.assignments) :
                  lp.response.assignments[j].windowId \notin lp.snapshot}}

C5_OnePassInFlight == Len(inFlight) <= 1

\* C6: a pass whose engine call failed changes no anomaly, shows the error toast and
\* neither the success nor the unassigned notice; a pass whose call returned never
\* shows the error toast, so a failure is never taken for an empty successful pass
C6_FailureIsDistinct ==
    /\ lastPass.outcome = "error" =>
           /\ lastPass.changed = {}
           /\ lastPass.applied = {}
           /\ "error" \in lastPass.toasts
           /\ "info" \notin lastPass.toasts
           /\ "success" \notin lastPass.toasts
    /\ lastPass.outcome = "ok" => "error" \notin lastPass.toasts

\* a failed pass, while some anomaly was waiting to be scheduled
C6_Witness ==
    /\ lastPass.outcome = "error"
    /\ unscheduledTreatedAnomalies # <<>>

\* C7: every window handed to the engine is planned and starts after the time of the
\* call, and every anomaly handed to it is treated and has no window
C7_InputsFiltered ==
    \A p \in Range(inFlight) :
        /\ \A w \in Range(p.wins) : w.status = "planned" /\ w.startDate > p.calledAt
        /\ \A a \in Range(p.anoms) :
               p.records[a].status = "treated" /\ p.records[a].maintenanceWindowId = 0

\* ------------------------------------------------------------ window analysis (the page)
\* scores are kept exact: a score is carried times m, m a multiple of the window's
\* capacity, and overallScore times 2m

\* the treated anomalies assigned to window w
assignedAnomalies(anoms, w) ==
    {a \in AnomalyIds : anoms[a].status = "treated" /\ anoms[a].maintenanceWindowId = w.id}

\* plan?.totalDurationDays || 1
planDays(plans, a) == IF plans[a] # NoPlan /\ plans[a] # 0 THEN plans[a] ELSE 1

totalWorkload(anoms, plans, w) ==
    SumOver(assignedAnomalies(anoms, w), [a \in AnomalyIds |-> planDays(plans, a)])

utilizationTimesUnguarded(anoms, plans, w, m) ==
    IF w.durationDays # 0
    THEN (totalWorkload(anoms, plans, w) * 100 * m) \div w.durationDays
    ELSE 0

\* utilization times m
utilizationTimes(anoms, plans, w, m) ==
    IF w.durationDays > 0
    THEN (totalWorkload(anoms, plans, w) * 100 * m) \div w.durationDays
    ELSE 0

balanceScoreByCount(anoms, w) == Cardinality(assignedAnomalies(anoms, w)) * 10

balanceScore(anoms, w) ==
    Cardinality({anoms[a].criticalityLevel : a \in assignedAnomalies(anoms, w)}) * 10

efficiencyScoreTimesUnclamped(anoms, plans, w, m) ==
    100 * m - Abs(85 * m - utilizationTimes(anoms, plans, w, m))

\* efficiencyScore times m
efficiencyScoreTimes(anoms, plans, w, m) ==
    Max2(0, 100 * m - Abs(85 * m - utilizationTimes(anoms, plans, w, m)))

\* overallScore times 2m
overallScoreTimes(anoms, plans, w, m) ==
    balanceScore(anoms, w) * m + efficiencyScoreTimes(anoms, plans, w, m)

RECURSIVE ProductOf(_)
ProductOf(ds) == IF ds = <<>> THEN 1 ELSE Head(ds) * ProductOf(Tail(ds))

\* a common multiple of the capacities of the windows of a list
ScaleOf(wins) ==
    ProductOf([k \in 1..Len(wins) |->
                  IF wins[k].durationDays > 0 THEN wins[k].durationDays ELSE 1])

\* utilization > 100
isOverloaded(anoms, plans, w) ==
    utilizationTimes(anoms, plans, w, ScaleOf(<<w>>)) > 100 * ScaleOf(<<w>>)

\* 0 < utilization < 50
isUnderutilized(anoms, plans, w) ==
    /\ utilizationTimes(anoms, plans, w, ScaleOf(<<w>>)) < 50 * ScaleOf(<<w>>)
    /\ utilizationTimes(anoms, plans, w, ScaleOf(<<w>>)) > 0

\* ------------------------------------------------------------ scheduling optimizer (engine)
NoMove == [anomalyId |-> 0, fromWindowId |-> 0, toWindowId |-> 0]

\* the lowest-ranked anomaly of window w: the last of its anomalies in the ranking
lowestRanked(anoms, plans, w) ==
    LET ranked == sortByEfficiency(treatedAnomaliesOf(anoms), scoreAll(anoms, plans))
        mine == SelectSeq(ranked, LAMBDA a : anoms[a].maintenanceWindowId = w.id)
    IN  mine[Len(mine)]

\* the underutilized windows with room for p days
relocationTargets(anoms, plans, wins, p) ==
    {n \in 1..Len(wins) :
        /\ isUnderutilized(anoms, plans, wins[n])
        /\ wins[n].durationDays - totalWorkload(anoms, plans, wins[n]) >= p}

\* the highest-scoring of them, the first of the list among equals
bestTarget(anoms, plans, wins, targets) ==
    LET m == ScaleOf(wins)
    IN  Min({n \in targets : \A o \in targets :
                overallScoreTimes(anoms, plans, wins[n], m)
                    >= overallScoreTimes(anoms, plans, wins[o], m)})

\* one relocation out of the first overloaded window that can be relieved
optimizeStep(anoms, plans, wins) ==
    LET movable == {k \in 1..Len(wins) :
                       /\ isOverloaded(anoms, plans, wins[k])
                       /\ relocationTargets(anoms, plans, wins,
                              scoreProcessingTime(plans,
                                  lowestRanked(anoms, plans, wins[k]))) # {}}
    IN  IF movable = {} THEN NoMove
        ELSE LET k == Min(movable)
                 a == lowestRanked(anoms, plans, wins[k])
                 n == bestTarget(anoms, plans, wins,
                          relocationTargets(anoms, plans, wins,
                              scoreProcessingTime(plans, a)))
             IN  [anomalyId |-> a, fromWindowId |-> wins[k].id, toWindowId |-> wins[n].id]

RECURSIVE optimizeLoop(_, _, _, _)
optimizeLoop(anoms, plans, wins, acc) ==
    LET mv == optimizeStep(anoms, plans, wins)
    IN  IF mv = NoMove THEN acc
        ELSE optimizeLoop(updateAnomaly(anoms, mv.anomalyId, mv.toWindowId),
                          plans, wins, Append(acc, mv))

\* optimize(treatedAnomalies, maintenanceWindows, actionPlans): the reassignments
optimize(anoms, plans, wins) == optimizeLoop(anoms, plans, wins, <<>>)

applyReassignmentsNot(anoms, rs) == anoms

\* the backend applies the reassignments it returns
RECURSIVE applyReassignments(_, _)
applyReassignments(anoms, rs) ==
    IF rs = <<>> THEN anoms
    ELSE applyReassignments(updateAnomaly(anoms, Head(rs).anomalyId, Head(rs).toWindowId),
                            Tail(rs))

\* handleOptimizeScheduling: the engine optimizes and applies, the page reports
HandleOptimizeScheduling ==
    /\ Len(optLog) < MaxRuns
    /\ LET rs == optimize(anomalies, actionPlans, maintenanceWindows)
           m == ScaleOf(maintenanceWindows)
       IN  /\ anomalies' = applyReassignments(anomalies, rs)
           /\ optLog' = Append(optLog,
                  [reassignments |-> rs,
                   before |-> [k \in 1..Len(maintenanceWindows) |->
                       overallScoreTimes(anomalies, actionPlans, maintenanceWindows[k], m)]])
    /\ UNCHANGED <<creation, planEditor, chat, windowDetail, criticality, planning, maintenanceWindows, actionPlans, now, availableWindows, timerArmed,
                   inFlight, lastPass, edits>>

InitOpt ==
    /\ anomalies \in [AnomalyIds ->
           [status : {"treated"}, criticalityLevel : {"critical", "low"},
            equipmentId : {0}, maintenanceWindowId : {0} \cup WindowIds]]
    /\ actionPlans \in [AnomalyIds -> {1, 6}]
    /\ \E durs \in [WindowIds -> {5, 20}] :
           maintenanceWindows =
               WindowList(durs, [w \in WindowIds |-> 1], [w \in WindowIds |-> "planned"])
    /\ now = 0
    /\ availableWindows = availableWindowsAt(maintenanceWindows, now)
    /\ timerArmed = FALSE
    /\ inFlight = <<>>
    /\ lastPass = NoPass
    /\ optLog = <<>>
    /\ edits = 0
    /\ criticality = NoCriticality
    /\ planning = NoPlanning
    /\ creation = NoCreation
    /\ planEditor = NoEditor
    /\ chat = NoChat
    /\ windowDetail = NoDetail

NextOpt == HandleOptimizeScheduling

SpecOpt == InitOpt /\ [][NextOpt]_vars

\* ------------------------------------------------------------ what an optimizer run did
LastRun == optLog[Len(optLog)]

ScoreNow(k) ==
    overallScoreTimes(anomalies, actionPlans, maintenanceWindows[k],
                      ScaleOf(maintenanceWindows))

RECURSIVE SumSeq(_)
SumSeq(q) == IF q = <<>> THEN 0 ELSE Head(q) + SumSeq(Tail(q))

\* C8: after an optimizer run every window's overallScore is at least what it was
\* before the run
C8_NoWindowScoreDecreases ==
    optLog # <<>> =>
        \A k \in 1..Len(maintenanceWindows) : ScoreNow(k) >= LastRun.before[k]

\* C9: after an optimizer run the sum of the windows' overallScore is at least what
\* it was before the run
C9_AggregateScoreNonDecreasing ==
    optLog # <<>> =>
        SumSeq([k \in 1..Len(maintenanceWindows) |-> ScoreNow(k)]) >= SumSeq(LastRun.before)

\* C10: an optimizer run that follows another with nothing changed in between
\* returns no reassignment
C10_SecondRunEmpty ==
    \A i \in 2..Len(optLog) : optLog[i].reassignments = <<>>

\* two runs have been made and the first one did move an anomaly
C10_Witness ==
    /\ Len(optLog) >= 2
    /\ optLog[1].reassignments # <<>>

\* ------------------------------------------------------------ deleting a window
WindowIdsOf(wins) == {wins[k].id : k \in 1..Len(wins)}

\* C11: a step that deletes window w leaves w out of the window list, leaves no anomaly
\* assigned to w, and leaves the assignment of every anomaly that was not assigned
\* to w as it was
C11_DeleteUnassignsFirst ==
    [][\A w \in WindowIdsOf(maintenanceWindows) \ WindowIdsOf(maintenanceWindows') :
          /\ \A a \in AnomalyIds : anomalies'[a].maintenanceWindowId # w
          /\ \A a \in AnomalyIds :
                 anomalies[a].maintenanceWindowId # w
                     => anomalies'[a].maintenanceWindowId = anomalies[a].maintenanceWindowId
          /\ \A k \in 1..Len(maintenanceWindows') : maintenanceWindows'[k].id # w]_vars

\* every treated anomaly starts in a window; the user then edits the schedule
InitDelete ==
    /\ anomalies \in [AnomalyIds ->
           [status : {"treated", "new"}, criticalityLevel : {"critical", "normal"},
            equipmentId : {0}, maintenanceWindowId : {0} \cup WindowIds]]
    /\ \A a \in AnomalyIds :
           /\ a # NumAnomalies => anomalies[a].status = "treated"
           /\ anomalies[a].maintenanceWindowId = 0 <=> anomalies[a].status = "new"
    /\ actionPlans = [a \in AnomalyIds |-> 3]
    /\ \E last \in LastWindowChoices :
           maintenanceWindows =
               WindowList([w \in WindowIds |-> 5],
                          [w \in WindowIds |-> IF w = NumWindows THEN last.startDate ELSE 1],
                          [w \in WindowIds |-> IF w = NumWindows THEN last.status ELSE "planned"])
    /\ now = 0
    /\ availableWindows = availableWindowsAt(maintenanceWindows, now)
    /\ timerArmed = effectArms(anomalies)
    /\ inFlight = <<>>
    /\ lastPass = NoPass
    /\ optLog = <<>>
    /\ edits = 0
    /\ criticality = NoCriticality
    /\ planning = NoPlanning
    /\ creation = NoCreation
    /\ planEditor = NoEditor
    /\ chat = NoChat
    /\ windowDetail = NoDetail

NextDelete ==
    \/ HandleDeleteWindow
    \/ HandleManualSchedule

SpecDelete == InitDelete /\ [][NextDelete]_vars

\* a window that held an anomaly has been deleted: the anomaly is unscheduled, while
\* another anomaly keeps its place in a window that is still there
C11_Witness ==
    /\ Len(maintenanceWindows) < NumWindows
    /\ \E a \in AnomalyIds :
           /\ anomalies[a].status = "treated"
           /\ anomalies[a].maintenanceWindowId = 0
    /\ \E b \in AnomalyIds :
           anomalies[b].maintenanceWindowId \in WindowIdsOf(maintenanceWindows)

\* ------------------------------------------------------------ criticality level
\* a score of the sheet is <<>> when absent (null or undefined) and <<n>> when present

\* x ?? y
Coalesce(x, y) == IF x # <<>> THEN x ELSE y

\* x ?? 0
OrZero(x) == IF x # <<>> THEN x[1] ELSE 0

\* the copy that thinks a total of 7 is not high yet
calculateCriticalityLevelShifted(anomaly) ==
    LET totalScore ==
            OrZero(Coalesce(anomaly.userFiabiliteIntegriteScore, anomaly.fiabiliteIntegriteScore))
            + OrZero(Coalesce(anomaly.userDisponibiliteScore, anomaly.disponibiliteScore))
            + OrZero(Coalesce(anomaly.userProcessSafetyScore, anomaly.processSafetyScore))
    IN  IF totalScore >= 9 THEN "critical"
        ELSE IF totalScore >= 8 THEN "high"
        ELSE IF totalScore >= 3 THEN "normal"
        ELSE "low"

\* calculateCriticalityLevel of components/anomalies/AnomalyTable.tsx
calculateCriticalityLevelAnomalyTable(anomaly) ==
    LET fiabiliteIntegriteScore ==
            OrZero(Coalesce(anomaly.userFiabiliteIntegriteScore, anomaly.fiabiliteIntegriteScore))
        disponibiliteScore ==
            OrZero(Coalesce(anomaly.userDisponibiliteScore, anomaly.disponibiliteScore))
        processSafetyScore ==
            OrZero(Coalesce(anomaly.userProcessSafetyScore, anomaly.processSafetyScore))
        totalScore == fiabiliteIntegriteScore + disponibiliteScore + processSafetyScore
    IN  IF totalScore >= 9 THEN "critical"
        ELSE IF totalScore >= 7 THEN "high"
        ELSE IF totalScore >= 3 THEN "normal"
        ELSE "low"

\* calculateCriticalityLevel of pages/AnomalyDetail.tsx
calculateCriticalityLevelAnomalyDetail(anomaly) ==
    LET fiabiliteIntegriteScore ==
            OrZero(Coalesce(anomaly.userFiabiliteIntegriteScore, anomaly.fiabiliteIntegriteScore))
        disponibiliteScore ==
            OrZero(Coalesce(anomaly.userDisponibiliteScore, anomaly.disponibiliteScore))
        processSafetyScore ==
            OrZero(Coalesce(anomaly.userProcessSafetyScore, anomaly.processSafetyScore))
        totalScore == fiabiliteIntegriteScore + disponibiliteScore + processSafetyScore
    IN  IF totalScore >= 9 THEN "critical"
        ELSE IF totalScore >= 7 THEN "high"
        ELSE IF totalScore >= 3 THEN "normal"
        ELSE "low"

\* calculateCriticalityLevel of pages/Anomalies.tsx
calculateCriticalityLevelAnomalies(anomaly) ==
    LET fiabiliteIntegriteScore ==
            OrZero(Coalesce(anomaly.userFiabiliteIntegriteScore, anomaly.fiabiliteIntegriteScore))
        disponibiliteScore ==
            OrZero(Coalesce(anomaly.userDisponibiliteScore, anomaly.disponibiliteScore))
        processSafetyScore ==
            OrZero(Coalesce(anomaly.userProcessSafetyScore, anomaly.processSafetyScore))
        totalScore == fiabiliteIntegriteScore + disponibiliteScore + processSafetyScore
    IN  IF totalScore >= 9 THEN "critical"
        ELSE IF totalScore >= 7 THEN "high"
        ELSE IF totalScore >= 3 THEN "normal"
        ELSE "low"

\* calculateCriticalityLevel of the dashboard statistics
calculateCriticalityLevelDashboard(anomaly) ==
    LET fiabiliteIntegriteScore ==
            OrZero(Coalesce(anomaly.userFiabiliteIntegriteScore, anomaly.fiabiliteIntegriteScore))
        disponibiliteScore ==
            OrZero(Coalesce(anomaly.userDisponibiliteScore, anomaly.disponibiliteScore))
        processSafetyScore ==
            OrZero(Coalesce(anomaly.userProcessSafetyScore, anomaly.processSafetyScore))
        totalScore == fiabiliteIntegriteScore + disponibiliteScore + processSafetyScore
    IN  IF totalScore >= 9 THEN "critical"
        ELSE IF totalScore >= 7 THEN "high"
        ELSE IF totalScore >= 3 THEN "normal"
        ELSE "low"

\* a score as it is stored: absent, or a number
ScoreChoices == {<<>>} \cup {<<n>> : n \in 0..MaxScore}

\* every view computes the level of the anomaly it shows
CalculateCriticality ==
    /\ ~criticality.computed
    /\ criticality' =
           [criticality EXCEPT
               !.computed = TRUE,
               !.levels =
                   [AnomalyTable |-> calculateCriticalityLevelAnomalyTable(criticality.sheet),
                    AnomalyDetail |-> calculateCriticalityLevelAnomalyDetail(criticality.sheet),
                    Anomalies |-> calculateCriticalityLevelAnomalies(criticality.sheet),
                    Dashboard |-> calculateCriticalityLevelDashboard(criticality.sheet)]]
    /\ UNCHANGED <<creation, planEditor, chat, windowDetail, anomalies, maintenanceWindows, actionPlans, now, availableWindows,
                   timerArmed, inFlight, lastPass, optLog, edits, planning>>

InitCriticality ==
    /\ \E sheet \in [userFiabiliteIntegriteScore : ScoreChoices,
                     fiabiliteIntegriteScore : ScoreChoices,
                     userDisponibiliteScore : ScoreChoices,
                     disponibiliteScore : ScoreChoices,
                     userProcessSafetyScore : ScoreChoices,
                     processSafetyScore : ScoreChoices] :
           criticality = [NoCriticality EXCEPT !.sheet = sheet]
    /\ anomalies = [a \in AnomalyIds |->
           [status |-> "new", criticalityLevel |-> "normal", equipmentId |-> 0,
            maintenanceWindowId |-> 0]]
    /\ actionPlans = [a \in AnomalyIds |-> 0]
    /\ maintenanceWindows = <<>>
    /\ now = 0
    /\ availableWindows = <<>>
    /\ timerArmed = FALSE
    /\ inFlight = <<>>
    /\ lastPass = NoPass
    /\ optLog = <<>>
    /\ edits = 0
    /\ planning = NoPlanning
    /\ creation = NoCreation
    /\ planEditor = NoEditor
    /\ chat = NoChat
    /\ windowDetail = NoDetail

NextCriticality == CalculateCriticality

SpecCriticality == InitCriticality /\ [][NextCriticality]_vars

\* the score the level is about: the user's when present, else the computed one, else 0
SheetScore(user, computed) ==
    IF Len(user) = 1 THEN user[1] ELSE IF Len(computed) = 1 THEN computed[1] ELSE 0

SheetTotal ==
    SheetScore(criticality.sheet.userFiabiliteIntegriteScore,
               criticality.sheet.fiabiliteIntegriteScore)
    + SheetScore(criticality.sheet.userDisponibiliteScore, criticality.sheet.disponibiliteScore)
    + SheetScore(criticality.sheet.userProcessSafetyScore, criticality.sheet.processSafetyScore)

LevelViews == {"AnomalyTable", "AnomalyDetail", "Anomalies", "Dashboard"}

\* C12: the level computed from a score sheet is critical exactly when the total is at
\* least 9, high exactly from 7 to 8, normal exactly from 3 to 6, low exactly below 3,
\* and every copy of the function gives the same level
C12_LevelByTotal ==
    criticality.computed =>
        /\ \A v \in LevelViews :
               /\ criticality.levels[v] = "critical" <=> SheetTotal >= 9
               /\ criticality.levels[v] = "high" <=> (SheetTotal >= 7 /\ SheetTotal < 9)
               /\ criticality.levels[v] = "normal" <=> (SheetTotal >= 3 /\ SheetTotal < 7)
               /\ criticality.levels[v] = "low" <=> SheetTotal < 3
        /\ \A v, u \in LevelViews : criticality.levels[v] = criticality.levels[u]

\* a level has been computed at the boundary 7, where a user score of 1 stands in for
\* a computed score of 3
C12_Witness ==
    /\ criticality.computed
    /\ SheetTotal = 7
    /\ criticality.sheet.userFiabiliteIntegriteScore = <<1>>
    /\ criticality.sheet.fiabiliteIntegriteScore = <<3>>
    /\ criticality.levels.AnomalyDetail = "high"

\* ------------------------------------------------------------ planningAlgorithm (the page)
\* { critical: 10, high: 7, medium: 4, low: 1 }[level] || 1
criticalityWeight(level) ==
    CASE level = "critical" -> 10
      [] level = "high" -> 7
      [] level = "medium" -> 4
      [] level = "low" -> 1
      [] OTHER -> 1

\* equipmentFactor, times 10
equipmentFactor10(anomaly) == IF anomaly.equipmentId # 0 THEN 12 ELSE 10

\* urgencyScore, times 10
urgencyScore10(anomaly) == criticalityWeight(anomaly.criticalityLevel) * equipmentFactor10(anomaly)

processingTimeUnguarded(plans, a) == IF plans[a] # NoPlan THEN plans[a] ELSE 1

\* actionPlan?.totalDurationDays || 1
processingTime(plans, a) == IF plans[a] # NoPlan /\ plans[a] # 0 THEN plans[a] ELSE 1

\* treatedAnomalies.map(...): an anomaly with its scores; efficiency is kept as the
\* fraction num / den
treatedAnomaliesData(anoms, plans) ==
    [k \in 1..Len(treatedAnomaliesOf(anoms)) |->
        LET a == treatedAnomaliesOf(anoms)[k]
        IN  [id |-> a,
             criticalityLevel |-> anoms[a].criticalityLevel,
             equipmentId |-> anoms[a].equipmentId,
             maintenanceWindowId |-> anoms[a].maintenanceWindowId,
             urgencyScore10 |-> urgencyScore10(anoms[a]),
             processingTime |-> processingTime(plans, a),
             efficiency |-> [num |-> urgencyScore10(anoms[a]),
                             den |-> 10 * processingTime(plans, a)]]]

\* b.efficiency - a.efficiency < 0: a goes before b
efficiencyGreater(a, b) == a.efficiency.num * b.efficiency.den > b.efficiency.num * a.efficiency.den

sortInsertBeforeEquals(sorted, x) ==
    LET before == {k \in 1..Len(sorted) : efficiencyGreater(sorted[k], x)}
        n == Cardinality(before)
    IN  SubSeq(sorted, 1, n) \o <<x>> \o SubSeq(sorted, n + 1, Len(sorted))

\* x goes after every element the comparator does not put behind it
sortInsertDescending(sorted, x) ==
    LET before == {k \in 1..Len(sorted) : ~efficiencyGreater(x, sorted[k])}
        n == Cardinality(before)
    IN  SubSeq(sorted, 1, n) \o <<x>> \o SubSeq(sorted, n + 1, Len(sorted))

\* Array.prototype.sort((a, b) => b.efficiency - a.efficiency): stable, descending
RECURSIVE sortDescending(_)
sortDescending(data) ==
    IF data = <<>> THEN <<>>
    ELSE sortInsertDescending(sortDescending(SubSeq(data, 1, Len(data) - 1)), data[Len(data)])

\* windowAnalysis: utilization and efficiencyScore are carried times scale, overallScore
\* times 2 * scale
windowAnalysis(anoms, plans, wins) ==
    [k \in 1..Len(wins) |->
        [id |-> wins[k].id,
         assignedAnomalies |-> assignedAnomalies(anoms, wins[k]),
         capacity |-> wins[k].durationDays,
         totalWorkload |-> totalWorkload(anoms, plans, wins[k]),
         scale |-> ScaleOf(wins),
         utilization |-> utilizationTimes(anoms, plans, wins[k], ScaleOf(wins)),
         balanceScore |-> balanceScore(anoms, wins[k]),
         efficiencyScore |-> efficiencyScoreTimes(anoms, plans, wins[k], ScaleOf(wins)),
         overallScore |-> overallScoreTimes(anoms, plans, wins[k], ScaleOf(wins))]]

\* a recommendation is pushed when its list of culprits is not empty
recommendationIf(type, title, culprits) ==
    IF culprits # {} THEN <<[type |-> type, title |-> title, count |-> Cardinality(culprits)]>>
    ELSE <<>>

overloadedWindowsFrom100(windows) ==
    {k \in 1..Len(windows) : windows[k].utilization >= 100 * windows[k].scale}

\* windows.filter(w => w.utilization > 100)
overloadedWindows(windows) ==
    {k \in 1..Len(windows) : windows[k].utilization > 100 * windows[k].scale}

underutilizedWindowsWithEmpty(windows) ==
    {k \in 1..Len(windows) : windows[k].utilization < 50 * windows[k].scale}

\* windows.filter(w => w.utilization < 50 && w.utilization > 0)
underutilizedWindows(windows) ==
    {k \in 1..Len(windows) :
        /\ windows[k].utilization < 50 * windows[k].scale
        /\ windows[k].utilization > 0}

unscheduledCriticalOrNot(sorted) ==
    {k \in 1..Len(sorted) : sorted[k].maintenanceWindowId = 0}

\* anomalies.filter(a => !a.maintenanceWindowId && a.criticalityLevel === 'critical')
unscheduledCritical(sorted) ==
    {k \in 1..Len(sorted) :
        /\ sorted[k].maintenanceWindowId = 0
        /\ sorted[k].criticalityLevel = "critical"}

generateRecommendations(sorted, windows) ==
    recommendationIf("warning", "Fenetres Surchargees", overloadedWindows(windows))
    \o recommendationIf("info", "Capacite Disponible", underutilizedWindows(windows))
    \o recommendationIf("error", "Anomalies Critiques Non Programmees",
                        unscheduledCritical(sorted))

calculateOptimalScheduling(anoms, plans, wins) ==
    [computed |-> TRUE,
     sortedAnomalies |-> sortDescending(treatedAnomaliesData(anoms, plans)),
     windowAnalysis |-> windowAnalysis(anoms, plans, wins),
     recommendations |->
         generateRecommendations(sortDescending(treatedAnomaliesData(anoms, plans)),
                                 windowAnalysis(anoms, plans, wins))]

\* the planningAlgorithm memo is computed from the page's data
PlanningAlgorithm ==
    /\ ~planning.computed
    /\ planning' = calculateOptimalScheduling(anomalies, actionPlans, maintenanceWindows)
    /\ UNCHANGED <<creation, planEditor, chat, windowDetail, anomalies, maintenanceWindows, actionPlans, now, availableWindows,
                   timerArmed, inFlight, lastPass, optLog, edits, criticality>>

\* ------------------------------------------------------------ scoring and ranking
ScoringLevels == {"critical", "high", "medium", "normal", "low", "urgent"}

InitScoring ==
    /\ anomalies \in [AnomalyIds ->
           [status : {"treated", "new"}, criticalityLevel : ScoringLevels,
            equipmentId : {0, 1}, maintenanceWindowId : {0}]]
    /\ \A a \in AnomalyIds : a # NumAnomalies => anomalies[a].status = "treated"
    /\ actionPlans \in [AnomalyIds -> {NoPlan, 0, 2}]
    /\ maintenanceWindows =
           WindowList([w \in WindowIds |-> 5], [w \in WindowIds |-> 1],
                      [w \in WindowIds |-> "planned"])
    /\ now = 0
    /\ availableWindows = availableWindowsAt(maintenanceWindows, now)
    /\ timerArmed = FALSE
    /\ inFlight = <<>>
    /\ lastPass = NoPass
    /\ optLog = <<>>
    /\ edits = 0
    /\ criticality = NoCriticality
    /\ planning = NoPlanning
    /\ creation = NoCreation
    /\ planEditor = NoEditor
    /\ chat = NoChat
    /\ windowDetail = NoDetail

NextScoring == PlanningAlgorithm

SpecScoring == InitScoring /\ [][NextScoring]_vars

\* the weight the scoring contract gives a level
ContractWeight(level) ==
    CASE level = "critical" -> 10
      [] level = "high" -> 7
      [] level \in {"medium", "normal"} -> 4
      [] OTHER -> 1

\* C13: every ranked anomaly has urgencyScore = weight * equipmentFactor, the weight
\* being 10 for critical, 7 for high, 4 for medium and for normal, 1 for low and for an
\* unknown level, the factor 1.2 with an equipment id and 1.0 without (scores times 10)
C13_UrgencyScore ==
    planning.computed =>
        \A k \in 1..Len(planning.sortedAnomalies) :
            LET x == planning.sortedAnomalies[k]
            IN  x.urgencyScore10 =
                    ContractWeight(x.criticalityLevel) * (IF x.equipmentId # 0 THEN 12 ELSE 10)

\* C14 as stated: every ranked anomaly has processingTime >= 1, processingTime is the
\* plan's totalDurationDays when the anomaly has a plan and 1 when it has none, and
\* efficiency = urgencyScore / processingTime
C14_ProcessingTimeIsPlanDuration ==
    planning.computed =>
        \A k \in 1..Len(planning.sortedAnomalies) :
            LET x == planning.sortedAnomalies[k]
            IN  /\ x.processingTime >= 1
                /\ x.processingTime =
                       (IF actionPlans[x.id] # NoPlan THEN actionPlans[x.id] ELSE 1)
                /\ x.efficiency.num * 10 * x.processingTime = x.urgencyScore10 * x.efficiency.den

\* C14, amended: every ranked anomaly has processingTime >= 1, processingTime is the
\* plan's totalDurationDays when the anomaly has a plan whose totalDurationDays is not
\* zero and 1 otherwise, and efficiency = urgencyScore / processingTime
C14_ProcessingTimeAtLeastOne ==
    planning.computed =>
        \A k \in 1..Len(planning.sortedAnomalies) :
            LET x == planning.sortedAnomalies[k]
            IN  /\ x.processingTime >= 1
                /\ x.processingTime =
                       (IF actionPlans[x.id] # NoPlan /\ actionPlans[x.id] # 0
                        THEN actionPlans[x.id] ELSE 1)
                /\ x.efficiency.den > 0
                /\ x.efficiency.num * 10 * x.processingTime = x.urgencyScore10 * x.efficiency.den

\* the ranking holds an anomaly whose plan has no days (it counts as one day) and an
\* anomaly with a plan of two days
C14_Witness ==
    /\ planning.computed
    /\ \E k \in 1..Len(planning.sortedAnomalies) :
           /\ actionPlans[planning.sortedAnomalies[k].id] = 0
           /\ planning.sortedAnomalies[k].processingTime = 1
    /\ \E k \in 1..Len(planning.sortedAnomalies) :
           /\ actionPlans[planning.sortedAnomalies[k].id] = 2
           /\ planning.sortedAnomalies[k].processingTime = 2

SortedEffGreater(i, j) ==
    efficiencyGreater(planning.sortedAnomalies[i], planning.sortedAnomalies[j])

\* C15: the ranking holds every treated anomaly once and nothing else, no anomaly comes
\* before one of greater efficiency, and anomalies of equal efficiency are in input order
C15_StableRanking ==
    planning.computed =>
        /\ Len(planning.sortedAnomalies) = Len(treatedAnomalies)
        /\ \A a \in Range(treatedAnomalies) :
               Cardinality({k \in 1..Len(planning.sortedAnomalies) :
                               planning.sortedAnomalies[k].id = a}) = 1
        /\ \A i, j \in 1..Len(planning.sortedAnomalies) :
               i < j =>
                   /\ ~SortedEffGreater(j, i)
                   /\ ~SortedEffGreater(i, j)
                          => planning.sortedAnomalies[i].id < planning.sortedAnomalies[j].id

\* two anomalies of different levels and equal efficiency have been ranked
C15_Witness ==
    /\ planning.computed
    /\ \E i, j \in 1..Len(planning.sortedAnomalies) :
           /\ i < j
           /\ ~SortedEffGreater(i, j)
           /\ ~SortedEffGreater(j, i)
           /\ planning.sortedAnomalies[i].criticalityLevel
                  # planning.sortedAnomalies[j].criticalityLevel

\* ------------------------------------------------------------ window analysis, checked
InitAnalysis ==
    /\ anomalies \in [AnomalyIds ->
           [status : {"treated", "new"}, criticalityLevel : {"critical", "normal"},
            equipmentId : {0}, maintenanceWindowId : {0} \cup WindowIds]]
    /\ \A a \in AnomalyIds : a # NumAnomalies => anomalies[a].status = "treated"
    /\ actionPlans \in [AnomalyIds -> {NoPlan, 0, 17, 20}]
    /\ \E first \in {0 - 20, 0, 10, 34} :
           maintenanceWindows =
               WindowList([w \in WindowIds |-> IF w = 1 THEN first ELSE 20],
                          [w \in WindowIds |-> 1], [w \in WindowIds |-> "planned"])
    /\ now = 0
    /\ availableWindows = availableWindowsAt(maintenanceWindows, now)
    /\ timerArmed = FALSE
    /\ inFlight = <<>>
    /\ lastPass = NoPass
    /\ optLog = <<>>
    /\ edits = 0
    /\ criticality = NoCriticality
    /\ planning = NoPlanning
    /\ creation = NoCreation
    /\ planEditor = NoEditor
    /\ chat = NoChat
    /\ windowDetail = NoDetail

NextAnalysis == PlanningAlgorithm

SpecAnalysis == InitAnalysis /\ [][NextAnalysis]_vars

\* the treated anomalies whose maintenanceWindowId is the k-th window
TreatedIn(k) ==
    {a \in AnomalyIds :
        /\ anomalies[a].status = "treated"
        /\ anomalies[a].maintenanceWindowId = maintenanceWindows[k].id}

Analysed(k) == planning.windowAnalysis[k]

\* C16 as stated: a window's totalWorkload is the sum, over the treated anomalies
\* assigned to it, of the plan's totalDurationDays, 1 for an anomaly without a plan, and
\* its utilization is totalWorkload / durationDays * 100, or 0 when durationDays <= 0
C16_UtilizationOfPlanDurations ==
    planning.computed =>
        \A k \in 1..Len(maintenanceWindows) :
            /\ Analysed(k).totalWorkload =
                   SumOver(TreatedIn(k),
                           [a \in AnomalyIds |->
                               IF actionPlans[a] # NoPlan THEN actionPlans[a] ELSE 1])
            /\ IF maintenanceWindows[k].durationDays > 0
               THEN Analysed(k).utilization * maintenanceWindows[k].durationDays
                        = Analysed(k).totalWorkload * 100 * Analysed(k).scale
               ELSE Analysed(k).utilization = 0

\* C16, amended: a window's totalWorkload is the sum, over the treated anomalies assigned
\* to it, of the plan's totalDurationDays, 1 for an anomaly without a plan or with a plan of
\* zero days, and its utilization is totalWorkload / durationDays * 100, or 0 when
\* durationDays <= 0
C16_Utilization ==
    planning.computed =>
        \A k \in 1..Len(maintenanceWindows) :
            /\ Analysed(k).totalWorkload =
                   SumOver(TreatedIn(k),
                           [a \in AnomalyIds |->
                               IF actionPlans[a] # NoPlan /\ actionPlans[a] # 0
                               THEN actionPlans[a] ELSE 1])
            /\ IF maintenanceWindows[k].durationDays > 0
               THEN Analysed(k).utilization * maintenanceWindows[k].durationDays
                        = Analysed(k).totalWorkload * 100 * Analysed(k).scale
               ELSE Analysed(k).utilization = 0

\* a window of negative duration holding an anomaly has been analysed, and so has a
\* window of positive duration holding an anomaly
C16_Witness ==
    /\ planning.computed
    /\ \E k \in 1..Len(maintenanceWindows) :
           /\ maintenanceWindows[k].durationDays < 0
           /\ Analysed(k).totalWorkload > 0
           /\ Analysed(k).utilization = 0
    /\ \E k \in 1..Len(maintenanceWindows) :
           /\ maintenanceWindows[k].durationDays > 0
           /\ Analysed(k).utilization > 0

\* C17: a window's efficiencyScore is max(0, 100 - |85 - utilization|): never negative,
\* 100 at 85% utilization, 15 at 0% and at 170%, 0 from 185% on
C17_EfficiencyScore ==
    planning.computed =>
        \A k \in 1..Len(maintenanceWindows) :
            LET m == Analysed(k).scale
                u == Analysed(k).utilization
                s == Analysed(k).efficiencyScore
            IN  /\ s = Max2(0, 100 * m - Abs(85 * m - u))
                /\ s >= 0
                /\ u = 85 * m => s = 100 * m
                /\ u = 0 => s = 15 * m
                /\ u = 170 * m => s = 15 * m
                /\ u >= 185 * m => s = 0

\* one window has been analysed at exactly 85% and another at 0%
C17_Witness ==
    /\ planning.computed
    /\ \E k \in 1..Len(maintenanceWindows) :
           /\ Analysed(k).utilization = 85 * Analysed(k).scale
           /\ Analysed(k).efficiencyScore = 100 * Analysed(k).scale
    /\ \E k \in 1..Len(maintenanceWindows) :
           /\ Analysed(k).utilization = 0
           /\ Analysed(k).efficiencyScore = 15 * Analysed(k).scale

\* C18: a window's balanceScore is 10 times the number of distinct criticality levels
\* among its assigned anomalies, 0 when it has none, and its overallScore is
\* (balanceScore + efficiencyScore) / 2
C18_BalanceAndOverall ==
    planning.computed =>
        \A k \in 1..Len(maintenanceWindows) :
            /\ Analysed(k).balanceScore =
                   10 * Cardinality({anomalies[a].criticalityLevel : a \in TreatedIn(k)})
            /\ TreatedIn(k) = {} => Analysed(k).balanceScore = 0
            /\ Analysed(k).overallScore =
                   Analysed(k).balanceScore * Analysed(k).scale + Analysed(k).efficiencyScore

\* a window holding two anomalies of one level has been analysed, and an empty one
C18_Witness ==
    /\ planning.computed
    /\ \E k \in 1..Len(maintenanceWindows) :
           /\ Cardinality(TreatedIn(k)) = 2
           /\ Analysed(k).balanceScore = 10
    /\ \E k \in 1..Len(maintenanceWindows) :
           /\ TreatedIn(k) = {}
           /\ Analysed(k).balanceScore = 0

RecommendationsOf(type) ==
    {i \in 1..Len(planning.recommendations) : planning.recommendations[i].type = type}

Over100 == {k \in 1..Len(maintenanceWindows) : Analysed(k).utilization > 100 * Analysed(k).scale}

Under50 ==
    {k \in 1..Len(maintenanceWindows) :
        /\ Analysed(k).utilization > 0
        /\ Analysed(k).utilization < 50 * Analysed(k).scale}

\* C19: there is exactly one warning recommendation when some window has utilization
\* above 100 and none otherwise, and it gives the number of such windows
C19_OverloadedRecommendation ==
    planning.computed =>
        /\ Cardinality(RecommendationsOf("warning")) = (IF Over100 # {} THEN 1 ELSE 0)
        /\ \A i \in RecommendationsOf("warning") :
               planning.recommendations[i].count = Cardinality(Over100)

\* one window is at exactly 100%, another above, and the warning counts one window
C19_Witness ==
    /\ planning.computed
    /\ \E k \in 1..Len(maintenanceWindows) :
           Analysed(k).utilization = 100 * Analysed(k).scale
    /\ \E i \in RecommendationsOf("warning") : planning.recommendations[i].count = 1

\* C20: there is exactly one info recommendation when some window has utilization above 0
\* and below 50 and none otherwise
C20_UnderutilizedRecommendation ==
    planning.computed =>
        Cardinality(RecommendationsOf("info")) = (IF Under50 # {} THEN 1 ELSE 0)

\* one window is at exactly 50%, the others are empty, and there is no info
\* recommendation
C20_Witness ==
    /\ planning.computed
    /\ \E k \in 1..Len(maintenanceWindows) :
           Analysed(k).utilization = 50 * Analysed(k).scale
    /\ \A k \in 1..Len(maintenanceWindows) :
           Analysed(k).utilization \in {0, 50 * Analysed(k).scale}
    /\ RecommendationsOf("info") = {}

\* C21 as stated: there is an error recommendation exactly when some anomaly is critical
\* and has no window, whatever the windows' utilization
C21_UnscheduledCriticalAnyStatus ==
    planning.computed =>
        (RecommendationsOf("error") # {}
            <=> \E a \in AnomalyIds :
                    /\ anomalies[a].criticalityLevel = "critical"
                    /\ anomalies[a].maintenanceWindowId = 0)

\* C21, amended: there is an error recommendation, and only one, exactly when some
\* treated anomaly is critical and has no window, whatever the windows' utilization
C21_UnscheduledCritical ==
    planning.computed =>
        /\ RecommendationsOf("error") # {}
               <=> \E a \in AnomalyIds :
                       /\ anomalies[a].status = "treated"
                       /\ anomalies[a].criticalityLevel = "critical"
                       /\ anomalies[a].maintenanceWindowId = 0
        /\ Cardinality(RecommendationsOf("error")) <= 1

\* the error recommendation stands next to a warning about an overloaded window
C21_Witness ==
    /\ planning.computed
    /\ RecommendationsOf("error") # {}
    /\ RecommendationsOf("warning") # {}

\* ------------------------------------------------------------ creating a window from the modal
\* the required capacity: the plans' totalDurationDays, 1 for an anomaly without a plan
requiredCapacity(ids, plans) ==
    SumOver(ids, [a \in AnomalyIds |-> IF plans[a] # NoPlan THEN plans[a] ELSE 1])

windowTypeForBelow(total) ==
    IF total < 3 THEN "force" ELSE IF total < 7 THEN "minor" ELSE "major"

\* the smallest type whose range holds the required capacity
windowTypeFor(total) ==
    IF total <= 3 THEN "force" ELSE IF total <= 7 THEN "minor" ELSE "major"

\* the longest a window of a type lasts
typeCeiling(type) ==
    CASE type = "force" -> 3
      [] type = "minor" -> 7
      [] OTHER -> 42

\* createOptimalWindow(anomalyIds, actionPlans): the synthesized window
createOptimalWindow(ids, plans, t) ==
    [id |-> CreatedWindowId,
     type |-> windowTypeFor(requiredCapacity(ids, plans)),
     durationDays |-> typeCeiling(windowTypeFor(requiredCapacity(ids, plans))),
     startDate |-> t,
     status |-> "planned",
     autoCreated |-> TRUE]

\* windowData.type === 'arret' ? 'minor' : windowData.type
backendType(type) == IF type = "arret" THEN "minor" ELSE type

\* the window the page builds from what the user entered
newWindow(windowData) ==
    [id |-> TempWindowId,
     type |-> backendType(windowData.type),
     durationDays |-> windowData.durationDays,
     startDate |-> windowData.startDate,
     status |-> "planned",
     autoCreated |-> FALSE]

addMaintenanceWindow(wins, w) == Append(wins, w)

\* for (const anomalyId of autoAssignAnomalies) updateAnomaly(anomalyId, {maintenanceWindowId})
RECURSIVE assignAll(_, _, _)
assignAll(anoms, ids, w) ==
    IF ids = {} THEN anoms
    ELSE LET a == CHOOSE x \in ids : TRUE
         IN  assignAll(updateAnomaly(anoms, a, w), ids \ {a}, w)

\* what the user may enter in the creation modal
WindowDataChoices ==
    [type : {"force", "minor", "major", "arret"},
     durationDays : {2, 5},
     startDate : {1},
     autoAssignAnomalies : SUBSET AnomalyIds]

\* handleCreateWindowFromModal up to its await: the window is added optimistically
HandleCreateWindowFromModal ==
    \E windowData \in WindowDataChoices :
        /\ creation.phase = "idle"
        /\ maintenanceWindows' = addMaintenanceWindow(maintenanceWindows, newWindow(windowData))
        /\ availableWindows' = availableWindowsAt(maintenanceWindows', now)
        /\ creation' = [phase |-> "awaiting", rethrown |-> FALSE, toasts |-> {},
                        windowData |-> windowData,
                        windowsBefore |-> maintenanceWindows,
                        anomaliesBefore |-> anomalies,
                        serverWindow |-> newWindow(windowData)]
        /\ UNCHANGED <<anomalies, actionPlans, now, timerArmed, inFlight, lastPass, optLog,
                       edits, criticality, planning, planEditor, chat, windowDetail>>

\* createOptimalWindow answers: the selected anomalies go to the window it returned;
\* whether the backend's window also shows up in the page's list is the backend's affair
HandleCreateWindowFromModalThen ==
    \E listed \in BOOLEAN :
        /\ creation.phase = "awaiting"
        /\ LET serverWindow ==
                   createOptimalWindow(creation.windowData.autoAssignAnomalies, actionPlans, now)
           IN  /\ anomalies' = assignAll(anomalies, creation.windowData.autoAssignAnomalies,
                                         serverWindow.id)
               /\ maintenanceWindows' =
                      IF listed THEN addMaintenanceWindow(maintenanceWindows, serverWindow)
                      ELSE maintenanceWindows
               /\ creation' = [creation EXCEPT !.phase = "done", !.toasts = {"success"},
                                               !.serverWindow = serverWindow]
        /\ availableWindows' = availableWindowsAt(maintenanceWindows', now)
        /\ timerArmed' = effectArms(anomalies')
        /\ UNCHANGED <<actionPlans, now, inFlight, lastPass, optLog, edits, criticality,
                       planning, planEditor, chat, windowDetail>>

\* createOptimalWindow fails: the catch block toasts and rethrows
HandleCreateWindowFromModalCatch ==
    /\ creation.phase = "awaiting"
    /\ creation' = [creation EXCEPT !.phase = "failed", !.toasts = {"error"},
                                    !.rethrown = TRUE]
    /\ UNCHANGED <<anomalies, maintenanceWindows, actionPlans, now, availableWindows,
                   timerArmed, inFlight, lastPass, optLog, edits, criticality, planning,
                   planEditor, chat, windowDetail>>

InitCreate ==
    /\ anomalies = [a \in AnomalyIds |->
           [status |-> "treated", criticalityLevel |-> "normal", equipmentId |-> 0,
            maintenanceWindowId |-> 0]]
    /\ actionPlans \in [AnomalyIds -> {NoPlan, 2, 5}]
    /\ maintenanceWindows =
           WindowList([w \in WindowIds |-> 5], [w \in WindowIds |-> 1],
                      [w \in WindowIds |-> "planned"])
    /\ now = 0
    /\ availableWindows = availableWindowsAt(maintenanceWindows, now)
    /\ timerArmed = FALSE
    /\ inFlight = <<>>
    /\ lastPass = NoPass
    /\ optLog = <<>>
    /\ edits = 0
    /\ criticality = NoCriticality
    /\ planning = NoPlanning
    /\ creation = NoCreation
    /\ planEditor = NoEditor
    /\ chat = NoChat
    /\ windowDetail = NoDetail

NextCreate ==
    \/ HandleCreateWindowFromModal
    \/ HandleCreateWindowFromModalThen
    \/ HandleCreateWindowFromModalCatch

SpecCreate == InitCreate /\ [][NextCreate]_vars

\* the capacity the selected anomalies need
CreationTotal == requiredCapacity(creation.windowData.autoAssignAnomalies, actionPlans)

\* C22: the synthesized window is of type force exactly when the required capacity is
\* at most 3, minor exactly when it is above 3 and at most 7, major exactly when it is
\* above 7
C22_WindowTypeByCapacity ==
    creation.phase = "done" =>
        /\ creation.serverWindow.type = "force" <=> CreationTotal <= 3
        /\ creation.serverWindow.type = "minor" <=> (CreationTotal > 3 /\ CreationTotal <= 7)
        /\ creation.serverWindow.type = "major" <=> CreationTotal > 7

\* a window has been synthesized for two anomalies that need 7 days together, one of
\* them 2 days and the other 5
C22_Witness ==
    /\ creation.phase = "done"
    /\ CreationTotal = 7
    /\ Cardinality(creation.windowData.autoAssignAnomalies) = 2
    /\ creation.serverWindow.type = "minor"

\* the windows the page's list has gained since the creation started
GainedWindows ==
    {k \in 1..Len(maintenanceWindows) :
        maintenanceWindows[k].id \notin WindowIdsOf(creation.windowsBefore)}

\* C23: the synthesized window is planned and autoCreated, and a creation from the modal
\* adds exactly one window, with autoCreated false, which is the window the selected
\* anomalies are assigned to
C23_OneManualWindow ==
    creation.phase = "done" =>
        /\ creation.serverWindow.status = "planned"
        /\ creation.serverWindow.autoCreated
        /\ Cardinality(GainedWindows) = 1
        /\ \A k \in GainedWindows :
               /\ ~maintenanceWindows[k].autoCreated
               /\ \A a \in creation.windowData.autoAssignAnomalies :
                      anomalies[a].maintenanceWindowId = maintenanceWindows[k].id

\* C28: when createOptimalWindow fails the error is rethrown, and the window list and
\* every anomaly's maintenanceWindowId are as they were before the call
C28_CreationAllOrNothing ==
    creation.phase = "failed" =>
        /\ creation.rethrown
        /\ maintenanceWindows = creation.windowsBefore
        /\ \A a \in AnomalyIds :
               anomalies[a].maintenanceWindowId
                   = creation.anomaliesBefore[a].maintenanceWindowId

\* ------------------------------------------------------------ referential integrity
\* C27: every anomaly that has a maintenanceWindowId refers to a window of the
\* maintenanceWindows list
C27_ReferentialIntegrity ==
    \A a \in AnomalyIds :
        anomalies[a].maintenanceWindowId # 0
            => anomalies[a].maintenanceWindowId \in WindowIdsOf(maintenanceWindows)

\* ------------------------------------------------------------ the window detail modal
\* anomalies.filter(a => a.maintenanceWindowId === window.id)
detailAssignedAnomalies(anoms, w) ==
    {a \in AnomalyIds : anoms[a].maintenanceWindowId = w.id}

\* the plans of the assigned anomalies, 8 hours for each of their days
totalEstimatedHours(anoms, plans, w) ==
    SumOver({a \in detailAssignedAnomalies(anoms, w) : plans[a] # NoPlan},
            [a \in AnomalyIds |-> plans[a] * 8])

\* the modal's utilization, times m: hours over the window's days of 24 hours
detailUtilizationTimes(anoms, plans, w, m) ==
    IF w.durationDays > 0
    THEN (totalEstimatedHours(anoms, plans, w) * 100 * m) \div (w.durationDays * 24)
    ELSE 0

\* the scale that keeps both utilizations of a window whole
DetailScale(wins) == 3 * ScaleOf(wins)

\* the user opens the detail modal of the k-th window
OpenWindowDetail ==
    \E k \in 1..Len(maintenanceWindows) :
        /\ ~windowDetail.open
        /\ windowDetail' =
               [open |-> TRUE, window |-> k, scale |-> DetailScale(maintenanceWindows),
                utilization |->
                    detailUtilizationTimes(anomalies, actionPlans, maintenanceWindows[k],
                                           DetailScale(maintenanceWindows))]
        /\ UNCHANGED <<anomalies, maintenanceWindows, actionPlans, now, availableWindows,
                       timerArmed, inFlight, lastPass, optLog, edits, criticality, planning,
                       creation, planEditor, chat>>

InitDetail ==
    /\ anomalies \in [AnomalyIds ->
           [status : {"treated", "new"}, criticalityLevel : {"normal"},
            equipmentId : {0}, maintenanceWindowId : {0} \cup WindowIds]]
    /\ \A a \in AnomalyIds : a # NumAnomalies => anomalies[a].status = "treated"
    /\ actionPlans \in [AnomalyIds -> {NoPlan, 3}]
    /\ \E first \in {0, 5} :
           maintenanceWindows =
               WindowList([w \in WindowIds |-> IF w = 1 THEN first ELSE 5],
                          [w \in WindowIds |-> 1], [w \in WindowIds |-> "planned"])
    /\ now = 0
    /\ availableWindows = availableWindowsAt(maintenanceWindows, now)
    /\ timerArmed = FALSE
    /\ inFlight = <<>>
    /\ lastPass = NoPass
    /\ optLog = <<>>
    /\ edits = 0
    /\ criticality = NoCriticality
    /\ planning = NoPlanning
    /\ creation = NoCreation
    /\ planEditor = NoEditor
    /\ chat = NoChat
    /\ windowDetail = NoDetail

NextDetail == OpenWindowDetail

SpecDetail == InitDetail /\ [][NextDetail]_vars

\* C26: the utilization the detail modal shows for a window is the analyzer's
\* utilization of that window, and is 0 when the window's durationDays <= 0
C26_SameUtilization ==
    windowDetail.open =>
        /\ windowDetail.utilization =
               utilizationTimes(anomalies, actionPlans, maintenanceWindows[windowDetail.window],
                                windowDetail.scale)
        /\ maintenanceWindows[windowDetail.window].durationDays <= 0
               => windowDetail.utilization = 0

\* ------------------------------------------------------------ the action-plan editor
\* local action items an editor session may add, and save attempts it may make
MaxAdds == 2
MaxSaves == 2

\* ids of the items the store already holds are below, `action-<time>` ids above
LocalIdBase == 10
PersistedItemId == 1

isLocalId(id) == id > LocalIdBase

DureeChoices == {0, 2}
StatutChoices == {"planifie", "termine"}

\* every variable but the editor's
otherThanEditor == <<anomalies, maintenanceWindows, actionPlans, now, availableWindows,
                     timerArmed, inFlight, lastPass, optLog, edits, criticality, planning,
                     creation, chat, windowDetail>>

calculateTotalDurationButLast(actions) ==
    SumOver(1..(Len(actions) - 1), [i \in 1..Len(actions) |-> actions[i].dureeJours])

\* actionPlan.actions.reduce((sum, action) => sum + action.dureeJours, 0)
calculateTotalDuration(actions) ==
    SumOver(1..Len(actions), [i \in 1..Len(actions) |-> actions[i].dureeJours])

\* the share of the items that are done, in percent
calculateActionPlanProgress(actions) ==
    IF Len(actions) = 0 THEN 0
    ELSE (100 * Cardinality({i \in 1..Len(actions) : actions[i].statut = "termine"}))
             \div Len(actions)

\* the status handleSave derives from the completion and the number of items
saveStatus(completionPercentage, n) ==
    IF completionPercentage = 100 THEN "completed"
    ELSE IF completionPercentage > 0 THEN "in_progress"
    ELSE IF n > 0 THEN "approved"
    ELSE "draft"

statusRank(s) ==
    CASE s = "draft" -> 0
      [] s = "approved" -> 1
      [] s = "in_progress" -> 2
      [] s = "completed" -> 3

SeqFilterOut(s, id) == SelectSeq(s, LAMBDA x : x # id)

ItemsWithout(actions, id) == SelectSeq(actions, LAMBDA a : a.id # id)

\* the positions of handleSave's loops at which a request is sent
addPositions(snap, from) ==
    {j \in from..Len(snap.actions) :
        isLocalId(snap.actions[j].id) /\ snap.actions[j].id \in Range(snap.added)}

deletePositions(snap, from) ==
    {j \in from..Len(snap.removed) : ~isLocalId(snap.removed[j])}

afterAdds(snap, from) ==
    IF deletePositions(snap, from) # {}
    THEN [phase |-> "delete", idx |-> Min(deletePositions(snap, from))]
    ELSE [phase |-> "final", idx |-> 0]

afterPlan(snap, isNewPlan, from) ==
    IF ~isNewPlan /\ addPositions(snap, from) # {}
    THEN [phase |-> "add", idx |-> Min(addPositions(snap, from))]
    ELSE afterAdds(snap, 1)

IdlePc == [phase |-> "idle", idx |-> 0]

NoSnapshot == [actions |-> <<>>, added |-> <<>>, removed |-> <<>>, status |-> "draft"]

\* AnomalyDetail: the button that shows the modal
OpenActionPlan ==
    /\ ~planEditor.open
    /\ ~planEditor.effectPending
    /\ planEditor' = [planEditor EXCEPT !.open = TRUE]
    /\ UNCHANGED otherThanEditor

\* useEffect(..., [actionPlan.actions]): calculateTotalDuration, updateCompletionPercentage
RecomputeEffect ==
    /\ planEditor.effectPending
    /\ planEditor' = [planEditor EXCEPT
           !.effectPending = FALSE,
           !.totalDurationDays = calculateTotalDuration(planEditor.actions),
           !.completionPercentage = calculateActionPlanProgress(planEditor.actions)]
    /\ UNCHANGED otherThanEditor

\* addAction with newAction.dureeJours = d (action and responsable are filled in)
addAction(d) ==
    /\ planEditor.open
    /\ ~planEditor.effectPending
    /\ planEditor.nextAction < MaxAdds
    /\ LET actionId == LocalIdBase + planEditor.nextAction + 1
       IN planEditor' = [planEditor EXCEPT
              !.actions = Append(@, [id |-> actionId, dureeJours |-> d,
                                     statut |-> "planifie"]),
              !.locallyAddedActions = Append(@, actionId),
              !.nextAction = @ + 1,
              !.effectPending = TRUE,
              !.justSaved = FALSE]
    /\ UNCHANGED otherThanEditor

removeAction ==
    \E i \in 1..Len(planEditor.actions) :
        /\ planEditor.open
        /\ ~planEditor.effectPending
        /\ LET actionId == planEditor.actions[i].id
           IN IF actionId \in Range(planEditor.locallyAddedActions)
              THEN planEditor' = [planEditor EXCEPT
                       !.actions = ItemsWithout(@, actionId),
                       !.locallyAddedActions = SeqFilterOut(@, actionId),
                       !.effectPending = TRUE,
                       !.justSaved = FALSE]
              ELSE planEditor' = [planEditor EXCEPT
                       !.locallyRemovedActions = Append(@, actionId),
                       !.actions = ItemsWithout(@, actionId),
                       !.effectPending = TRUE,
                       !.justSaved = FALSE]
        /\ UNCHANGED otherThanEditor

\* updateAction(action.id, field, value) on one of the listed items
updateAction(field, value) ==
    \E i \in 1..Len(planEditor.actions) :
        /\ planEditor.open
        /\ ~planEditor.effectPending
        /\ planEditor' = [planEditor EXCEPT !.actions[i][field] = value,
                                            !.effectPending = TRUE]
        /\ UNCHANGED otherThanEditor

\* handleSave up to its first await
handleSave ==
    /\ planEditor.open
    /\ ~planEditor.effectPending
    /\ ~planEditor.isSaving
    /\ Len(planEditor.actions) > 0
    /\ planEditor.attempts < MaxSaves
    /\ LET status == saveStatus(planEditor.completionPercentage, Len(planEditor.actions))
       IN planEditor' = [planEditor EXCEPT
              !.isSaving = TRUE,
              !.status = status,
              !.attempts = @ + 1,
              !.justSaved = FALSE,
              !.snap = [actions |-> planEditor.actions,
                        added |-> planEditor.locallyAddedActions,
                        removed |-> planEditor.locallyRemovedActions,
                        status |-> status],
              !.pc = [phase |-> "plan", idx |-> 0]]
    /\ UNCHANGED otherThanEditor

\* createActionPlan or updateActionPlan resolves with the plan
handleSavePlanSaved ==
    /\ planEditor.pc.phase = "plan"
    /\ planEditor' = [planEditor EXCEPT
           !.created = IF planEditor.isNewPlan THEN @ + 1 ELSE @,
           !.statusLog = IF planEditor.isNewPlan THEN @
                         ELSE Append(@, planEditor.snap.status),
           !.pc = afterPlan(planEditor.snap, planEditor.isNewPlan, 1)]
    /\ UNCHANGED otherThanEditor

\* addActionItem resolves
handleSaveItemAdded ==
    /\ planEditor.pc.phase = "add"
    /\ planEditor' = [planEditor EXCEPT
           !.addedLog = Append(@, planEditor.snap.actions[planEditor.pc.idx].id),
           !.pc = afterPlan(planEditor.snap, planEditor.isNewPlan, planEditor.pc.idx + 1)]
    /\ UNCHANGED otherThanEditor

\* deleteActionItem resolves
handleSaveItemDeleted ==
    /\ planEditor.pc.phase = "delete"
    /\ planEditor' = [planEditor EXCEPT
           !.deletedLog = Append(@, planEditor.snap.removed[planEditor.pc.idx]),
           !.pc = afterAdds(planEditor.snap, planEditor.pc.idx + 1)]
    /\ UNCHANGED otherThanEditor

\* getActionPlan resolves, with the plan or with null
handleSaveFinal ==
    \E finalPlan \in BOOLEAN :
        /\ planEditor.pc.phase = "final"
        /\ planEditor' =
               IF finalPlan
               THEN [planEditor EXCEPT
                        !.locallyAddedActions = <<>>,
                        !.locallyRemovedActions = <<>>,
                        !.open = FALSE,
                        !.justSaved = TRUE,
                        !.isSaving = FALSE,
                        !.pc = IdlePc]
               ELSE [planEditor EXCEPT !.isSaving = FALSE, !.pc = IdlePc]
        /\ UNCHANGED otherThanEditor

\* any of the awaited requests rejects, or the saved plan comes back null
handleSaveCatch ==
    /\ planEditor.pc.phase \in {"plan", "add", "delete", "final"}
    /\ planEditor' = [planEditor EXCEPT !.isSaving = FALSE, !.pc = IdlePc]
    /\ UNCHANGED otherThanEditor

EditorAt(isNewPlan, d, st, stored) ==
    [open |-> FALSE,
     isNewPlan |-> isNewPlan,
     actions |-> IF isNewPlan THEN <<>>
                 ELSE <<[id |-> PersistedItemId, dureeJours |-> d, statut |-> st]>>,
     totalDurationDays |-> IF isNewPlan THEN 0 ELSE stored,
     completionPercentage |-> 0,
     status |-> "draft",
     effectPending |-> TRUE,
     locallyAddedActions |-> <<>>,
     locallyRemovedActions |-> <<>>,
     isSaving |-> FALSE,
     nextAction |-> 0,
     attempts |-> 0,
     justSaved |-> FALSE,
     snap |-> NoSnapshot,
     pc |-> IdlePc,
     created |-> 0,
     addedLog |-> <<>>,
     deletedLog |-> <<>>,
     statusLog |-> <<>>]

\* nothing but the editor is in use
InitOtherThanEditor ==
    /\ anomalies = [a \in AnomalyIds |->
           [status |-> "treated", criticalityLevel |-> "normal", equipmentId |-> 0,
            maintenanceWindowId |-> 0]]
    /\ actionPlans = [a \in AnomalyIds |-> NoPlan]
    /\ maintenanceWindows = <<>>
    /\ now = 0
    /\ availableWindows = <<>>
    /\ timerArmed = FALSE
    /\ inFlight = <<>>
    /\ lastPass = NoPass
    /\ optLog = <<>>
    /\ edits = 0
    /\ criticality = NoCriticality
    /\ planning = NoPlanning
    /\ creation = NoCreation
    /\ chat = NoChat
    /\ windowDetail = NoDetail

\* the editor of a new plan, or of a stored plan of one item whose stored total may be stale
InitEditor ==
    /\ \E isNewPlan \in BOOLEAN, d \in DureeChoices, st \in StatutChoices, stored \in DureeChoices :
          planEditor = EditorAt(isNewPlan, d, st, stored)
    /\ InitOtherThanEditor

NextEditor ==
    \/ OpenActionPlan
    \/ RecomputeEffect
    \/ \E d \in DureeChoices : addAction(d)
    \/ removeAction
    \/ \E d \in DureeChoices : updateAction("dureeJours", d)
    \/ \E st \in StatutChoices : updateAction("statut", st)

SpecEditor == InitEditor /\ [][NextEditor]_vars

\* the same editor, saved: the durations play no part in a save
InitSave ==
    /\ \E isNewPlan \in BOOLEAN, st \in StatutChoices :
          planEditor = EditorAt(isNewPlan, 2, st, 2)
    /\ InitOtherThanEditor

NextSave ==
    \/ OpenActionPlan
    \/ RecomputeEffect
    \/ addAction(2)
    \/ removeAction
    \/ \E st \in StatutChoices : updateAction("statut", st)
    \/ handleSave
    \/ handleSavePlanSaved
    \/ handleSaveItemAdded
    \/ handleSaveItemDeleted
    \/ handleSaveFinal
    \/ handleSaveCatch

SpecSave == InitSave /\ [][NextSave]_vars

\* C24: once the recomputation effect has run, totalDurationDays is the sum of
\* dureeJours over exactly the items currently in the plan
C24_TotalIsSumOfItems ==
    ~planEditor.effectPending =>
        planEditor.totalDurationDays =
            SumOver({i \in 1..Len(planEditor.actions) : TRUE},
                    [i \in 1..Len(planEditor.actions) |-> planEditor.actions[i].dureeJours])

\* an item was added, one was removed and one was edited, and the sum is not zero
C24_Witness ==
    /\ ~planEditor.effectPending
    /\ planEditor.nextAction > 0
    /\ planEditor.locallyRemovedActions # <<>>
    /\ Len(planEditor.actions) = 2
    /\ planEditor.totalDurationDays = 4

\* C25: the status a save writes is never earlier in draft, approved,
\* in_progress, completed than the status a previous save of the plan wrote
C25_StatusOnlyProgresses ==
    \A i, j \in 1..Len(planEditor.statusLog) :
        i < j => statusRank(planEditor.statusLog[i]) <= statusRank(planEditor.statusLog[j])

TimesIn(s, x) == Cardinality({i \in 1..Len(s) : s[i] = x})

\* C29: over the save attempts of an existing plan each locally added item is
\* added to the store at most once and each removed item deleted at most once;
\* the two id lists are disjoint, and empty after a successful save
C29_SavedAtMostOnce ==
    ~planEditor.isNewPlan =>
        /\ \A id \in Range(planEditor.addedLog) : TimesIn(planEditor.addedLog, id) <= 1
        /\ \A id \in Range(planEditor.deletedLog) : TimesIn(planEditor.deletedLog, id) <= 1
        /\ Range(planEditor.locallyAddedActions) \cap Range(planEditor.locallyRemovedActions) = {}
        /\ planEditor.justSaved =>
               /\ planEditor.locallyAddedActions = <<>>
               /\ planEditor.locallyRemovedActions = <<>>

\* ------------------------------------------------------------ the chat
\* user messages a chat session may send to the assistant, and to a colleague
MaxUserMessages == 2
MaxPeerMessages == 1

\* every variable but the chat's
otherThanChat == <<anomalies, maintenanceWindows, actionPlans, now, availableWindows,
                   timerArmed, inFlight, lastPass, optLog, edits, criticality, planning,
                   creation, planEditor, windowDetail>>

UserMessagesIn(messages) == Cardinality({i \in 1..Len(messages) : messages[i] = "user"})

\* user messages sent or about to be sent
Started == UserMessagesIn(chat.messages) + Len(chat.timers)

\* onChange of the input, which is disabled while isTyping
SetInputMessage ==
    /\ ~chat.isTyping
    /\ ~chat.inputMessage
    /\ chat.chatMode = "ai" \/ chat.selectedUserChat
    /\ chat' = [chat EXCEPT !.inputMessage = TRUE]
    /\ UNCHANGED otherThanChat

SetChatMode ==
    /\ \/ /\ chat.chatMode = "users"
          /\ chat' = [chat EXCEPT !.chatMode = "ai", !.selectedUserChat = FALSE]
       \/ /\ chat.chatMode = "ai"
          /\ chat' = [chat EXCEPT !.chatMode = "users"]
    /\ UNCHANGED otherThanChat

SetSelectedUserChat ==
    /\ chat.chatMode = "users"
    /\ ~chat.selectedUserChat
    /\ chat' = [chat EXCEPT !.selectedUserChat = TRUE]
    /\ UNCHANGED otherThanChat

\* a suggestion is clicked: the input is filled and a 100 ms timer is set whose
\* callback holds the isTyping of this render
handleSuggestedMessage ==
    /\ chat.chatMode = "ai"
    /\ Len(chat.messages) <= 2
    /\ ~chat.isTyping
    /\ Started < MaxUserMessages
    /\ chat' = [chat EXCEPT !.inputMessage = TRUE,
                            !.timers = Append(@, [isTyping |-> chat.isTyping])]
    /\ UNCHANGED otherThanChat

\* the callback of the oldest timer runs, up to processMessage's first await
handleSuggestedMessageTimeout ==
    /\ chat.timers # <<>>
    /\ IF ~Head(chat.timers).isTyping
       THEN chat' = [chat EXCEPT !.timers = Tail(@),
                                 !.messages = Append(@, "user"),
                                 !.inputMessage = FALSE,
                                 !.isTyping = TRUE,
                                 !.requests = Append(@, "asking")]
       ELSE chat' = [chat EXCEPT !.timers = Tail(@)]
    /\ UNCHANGED otherThanChat

\* handleSendMessage, up to processMessage's first await
handleSendMessage ==
    /\ chat.inputMessage
    /\ ~chat.isTyping
    /\ IF chat.chatMode = "ai"
       THEN /\ Started < MaxUserMessages
            /\ chat' = [chat EXCEPT !.messages = Append(@, "user"),
                                    !.inputMessage = FALSE,
                                    !.isTyping = TRUE,
                                    !.requests = Append(@, "asking")]
       ELSE IF ~chat.selectedUserChat
       THEN chat' = [chat EXCEPT !.toasts = @ \cup {"select-user"}]
       ELSE /\ chat.peerSent < MaxPeerMessages
            /\ chat' = [chat EXCEPT !.peerMessages = Append(@, "user"),
                                    !.peerSent = @ + 1,
                                    !.inputMessage = FALSE,
                                    !.peerTimers = @ + 1]
    /\ UNCHANGED otherThanChat

\* the simulated answer of the colleague
PeerTimeout ==
    /\ chat.peerTimers > 0
    /\ chat' = [chat EXCEPT !.peerMessages = Append(@, "peer"), !.peerTimers = @ - 1]
    /\ UNCHANGED otherThanChat

\* processMessage: getAIResponse resolves, the reply is appended
processMessageReplied ==
    \E i \in 1..Len(chat.requests) :
        /\ chat.requests[i] = "asking"
        /\ chat' = [chat EXCEPT !.messages = Append(@, "bot"), !.requests[i] = "saving"]
        /\ UNCHANGED otherThanChat

\* processMessage: the conversation is saved and logged, finally
processMessageSaved ==
    \E i \in 1..Len(chat.requests) :
        /\ chat.requests[i] = "saving"
        /\ chat' = [chat EXCEPT !.requests = RemoveAt(@, i), !.isTyping = FALSE]
        /\ UNCHANGED otherThanChat

\* processMessage: an awaited call of the try block rejects
processMessageCatch ==
    \E i \in 1..Len(chat.requests) :
        /\ chat.requests[i] \in {"asking", "saving"}
        /\ chat' = [chat EXCEPT !.requests[i] = "failing"]
        /\ UNCHANGED otherThanChat

\* processMessage: the error is logged, the apology appended, finally
processMessageApology ==
    \E i \in 1..Len(chat.requests) :
        /\ chat.requests[i] = "failing"
        /\ chat' = [chat EXCEPT !.messages = Append(@, "bot"),
                                !.toasts = @ \cup {"error"},
                                !.requests = RemoveAt(@, i),
                                !.isTyping = FALSE]
        /\ UNCHANGED otherThanChat

InitChat ==
    /\ chat = [chatMode |-> "ai", selectedUserChat |-> FALSE, inputMessage |-> FALSE,
               isTyping |-> FALSE, messages |-> <<"bot">>, timers |-> <<>>,
               requests |-> <<>>, peerMessages |-> <<>>, peerSent |-> 0,
               peerTimers |-> 0, toasts |-> {}]
    /\ anomalies = [a \in AnomalyIds |->
           [status |-> "treated", criticalityLevel |-> "normal", equipmentId |-> 0,
            maintenanceWindowId |-> 0]]
    /\ actionPlans = [a \in AnomalyIds |-> NoPlan]
    /\ maintenanceWindows = <<>>
    /\ now = 0
    /\ availableWindows = <<>>
    /\ timerArmed = FALSE
    /\ inFlight = <<>>
    /\ lastPass = NoPass
    /\ optLog = <<>>
    /\ edits = 0
    /\ criticality = NoCriticality
    /\ planning = NoPlanning
    /\ creation = NoCreation
    /\ planEditor = NoEditor
    /\ windowDetail = NoDetail

NextChat ==
    \/ SetInputMessage
    \/ SetChatMode
    \/ SetSelectedUserChat
    \/ handleSuggestedMessage
    \/ handleSuggestedMessageTimeout
    \/ handleSendMessage
    \/ PeerTimeout
    \/ processMessageReplied
    \/ processMessageSaved
    \/ processMessageCatch
    \/ processMessageApology

SpecChat == InitChat /\ [][NextChat]_vars

\* C30: at most one request to the assistant is in flight at a time, and while
\* one is in flight isTyping is true
C30_OneRequestInFlight ==
    /\ Len(chat.requests) <= 1
    /\ chat.requests # <<>> => chat.isTyping

====
